---- MODULE Spec2Model ----
(***************************************************************************)
(* openapi-express-ts: decorators that capture controller and route        *)
(* metadata, the schema inference engine behind them, the OpenAPI document *)
(* builder and the Express route binder with its per-request dispatch.     *)
(*                                                                         *)
(* Strings that the code inspects character by character (URL paths) are   *)
(* sequences of one-character strings; all other strings are atoms.        *)
(***************************************************************************)
EXTENDS Integers, Sequences, FiniteSets, TLC

VARIABLES
    controllers,    \* MetadataStorage.metadata.controllers (a Map, in insertion order)
    routes,         \* MetadataStorage.metadata.routes (class -> RouteMetadata[])
    pendingParams,  \* Reflect metadata 'custom:parameters' per (class, method)
    schemaCache,    \* decorators.ts schemaCache
    lastInfer,      \* outcome of the latest top-level call into the schema engine
    inferCalls,     \* number of top-level calls into the schema engine so far
    apiDoc,         \* the document returned by the operation that just ran (NoDoc if none)
    openApiJson,    \* the document written to api-doc/openapi.json
    appStack,       \* routers mounted on the Express app by registerControllers
    instances,      \* number of controller instances created so far
    reqs,           \* in-flight and finished requests, per request id
    process         \* "running", or "crashed" by an unhandled promise rejection

vars == <<controllers, routes, pendingParams, schemaCache, lastInfer, inferCalls,
          apiDoc, openApiJson, appStack, instances, reqs, process>>

----------------------------------------------------------------------------
(* Bounds of the model                                                     *)

MaxRoutes == 2       \* route decorators applied in one behaviour (path composition)
MaxCaptures == 1     \* route decorators applied in one behaviour (route capture)
MaxBodies == 2       \* @Body decorators applied to one method
MaxInferCalls == 2   \* direct calls into the schema engine in one behaviour
StackLimit == 12     \* call-stack frames available before the engine throws RangeError

----------------------------------------------------------------------------
(* Character strings                                                       *)

StartsWithSlash(s) == Len(s) > 0 /\ s[1] = "/"

\* String.prototype.replace(/\/+/g, '/'): every maximal run of '/' becomes one '/'
RECURSIVE ReplaceSlashRuns(_)
ReplaceSlashRuns(s) ==
    IF Len(s) <= 1 THEN s
    ELSE IF s[1] = "/" /\ s[2] = "/" THEN ReplaceSlashRuns(Tail(s))
    ELSE <<s[1]>> \o ReplaceSlashRuns(Tail(s))

----------------------------------------------------------------------------
(* Schema objects (types.ts SchemaObject).  An optional field is a tuple:  *)
(* <<>> when absent, <<v>> when present.                                   *)

Sch(t) == [type |-> t, format |-> "", items |-> <<>>, props |-> <<>>, description |-> <<>>]
SchFmt(t, f) == [Sch(t) EXCEPT !.format = f]
SchArray(item) == [Sch("array") EXCEPT !.items = <<item>>]
SchProps(p) == [Sch("object") EXCEPT !.props = <<p>>]
SchNamed(n) == [Sch("object") EXCEPT !.description = <<"Schema for type ", n>>]

NoProps == <<>>

\* no document: the operation that just ran was not generateOpenAPISpec
NoDoc == [generated |-> FALSE, servers |-> <<>>, paths |-> <<>>]
PropsPut(p, k, s) == [x \in (DOMAIN p) \cup {k} |-> IF x = k THEN s ELSE p[x]]

CachePut(c, t, s) == [x \in (DOMAIN c) \cup {t} |-> IF x = t THEN s ELSE c[x]]

----------------------------------------------------------------------------
(* The type descriptors and runtime values the engine is exercised on.     *)
(* A descriptor records what the engine can observe of a JavaScript value  *)
(* used as a type: identity, name, source text, prototype, metadata, the   *)
(* outcome of `new type()` and the own properties of the instance.         *)

T0 == [kind |-> "class", name |-> "", srcHasArray |-> FALSE, generic |-> "",
       hasPrototype |-> TRUE, metaProps |-> <<>>, ctorThrows |-> FALSE,
       fields |-> <<>>, scanProps |-> <<>>, params |-> <<>>, fresh |-> FALSE]

Builtin(k) == [T0 EXCEPT !.kind = k, !.name = k]

TypeIds == {"undefined", "String", "Number", "BigInt", "Boolean", "Date", "Buffer",
            "ArrayBuffer", "Array", "Object", "Promise", "Plain", "Empty", "Thrower",
            "Node", "Ping", "Pong", "Bag", "Meta", "ArrayList", "ArrayGen", "Map", "fn",
            "objEmpty", "objPlain", "objCyc", "five"}

TypeInfo(t) ==
    CASE t = "undefined" -> [T0 EXCEPT !.kind = "falsy", !.hasPrototype = FALSE]
      [] t \in {"String", "Number", "BigInt", "Boolean", "Date", "Buffer", "Object"} -> Builtin(t)
      \* the source text of ArrayBuffer and Array contains 'Array'
      [] t \in {"ArrayBuffer", "Array"} -> [Builtin(t) EXCEPT !.srcHasArray = TRUE]
      \* new Promise() throws (no executor); native source has no `this.x =`
      [] t = "Promise" -> [T0 EXCEPT !.name = t, !.ctorThrows = TRUE]
      \* class Plain { name = 's'; age = 1; _secret = true }
      [] t = "Plain" -> [T0 EXCEPT !.name = t,
                           !.fields = << <<"name", "vStr">>, <<"age", "vNum">>, <<"_secret", "vBool">> >>,
                           !.scanProps = <<"name", "age", "_secret">>]
      \* class Empty {}
      [] t = "Empty" -> [T0 EXCEPT !.name = t]
      \* class Thrower { constructor(dep) { this.id = dep.id } }
      [] t = "Thrower" -> [T0 EXCEPT !.name = t, !.ctorThrows = TRUE, !.scanProps = <<"id">>]
      \* class Node { constructor() { this.label = 's'; this.self = this } }
      [] t = "Node" -> [T0 EXCEPT !.name = t,
                          !.fields = << <<"label", "vStr">>, <<"self", "vNode">> >>,
                          !.scanProps = <<"label", "self">>]
      \* class Ping { pong = thePong }  class Pong { ping = thePing }
      [] t = "Ping" -> [T0 EXCEPT !.name = t, !.fields = << <<"pong", "vPong">> >>,
                          !.scanProps = <<"pong">>]
      [] t = "Pong" -> [T0 EXCEPT !.name = t, !.fields = << <<"ping", "vPing">> >>,
                          !.scanProps = <<"ping">>]
      \* class Bag { constructor() { this.size = 0; this.items = []; this.items.push(this.items) } }
      [] t = "Bag" -> [T0 EXCEPT !.name = t,
                         !.fields = << <<"size", "vNum">>, <<"items", "vSelfArr">> >>,
                         !.scanProps = <<"size", "items">>]
      \* class Meta {} with 'design:properties' = { title: String, next: Meta }
      [] t = "Meta" -> [T0 EXCEPT !.name = t,
                          !.metaProps = << <<"title", "String">>, <<"next", "Meta">> >>]
      \* class ArrayList { constructor() { this.count = 0 } }
      [] t = "ArrayList" -> [T0 EXCEPT !.name = t, !.srcHasArray = TRUE,
                               !.fields = << <<"count", "vNum">> >>, !.scanProps = <<"count">>]
      \* class ArrayGen { /* wraps Array<Map> */ }
      [] t = "ArrayGen" -> [T0 EXCEPT !.name = t, !.srcHasArray = TRUE, !.generic = "Map"]
      \* the global Map constructor: new Map() has no own properties
      [] t = "Map" -> [T0 EXCEPT !.name = t]
      \* const fn = (x, y) => x
      [] t = "fn" -> [T0 EXCEPT !.kind = "function", !.name = t, !.hasPrototype = FALSE,
                        !.params = <<"x", "y">>]
      \* a fresh {} literal, a different identity at every call
      [] t = "objEmpty" -> [T0 EXCEPT !.kind = "instance", !.hasPrototype = FALSE, !.fresh = TRUE]
      \* { n: 1, tags: ['s'] }
      [] t = "objPlain" -> [T0 EXCEPT !.kind = "instance", !.hasPrototype = FALSE,
                              !.fields = << <<"n", "vNum">>, <<"tags", "vStrArr">> >>]
      \* const list = []; list.push(list); { list }
      [] t = "objCyc" -> [T0 EXCEPT !.kind = "instance", !.hasPrototype = FALSE,
                            !.fields = << <<"list", "vSelfArr">> >>]
      \* the number 5 used as a type: truthy, neither function nor object
      [] t = "five" -> [T0 EXCEPT !.kind = "other", !.hasPrototype = FALSE]

V0 == [kind |-> "undefined", first |-> "", ctor |-> "undefined"]

ValueIds == {"vUndef", "vNull", "vStr", "vNum", "vBool", "vDate", "vEmptyArr", "vStrArr",
             "vHoleArr", "vSelfArr", "vPlain", "vNode", "vPing", "vPong", "vBare", "vFn"}

ValueInfo(v) ==
    CASE v = "vUndef" -> V0
      [] v = "vNull" -> [V0 EXCEPT !.kind = "null"]
      [] v = "vStr" -> [V0 EXCEPT !.kind = "string"]
      [] v = "vNum" -> [V0 EXCEPT !.kind = "number"]
      [] v = "vBool" -> [V0 EXCEPT !.kind = "boolean"]
      [] v = "vDate" -> [V0 EXCEPT !.kind = "date", !.ctor = "Date"]
      [] v = "vEmptyArr" -> [V0 EXCEPT !.kind = "array", !.ctor = "Array"]
      [] v = "vStrArr" -> [V0 EXCEPT !.kind = "array", !.first = "vStr", !.ctor = "Array"]
      \* [undefined]
      [] v = "vHoleArr" -> [V0 EXCEPT !.kind = "array", !.first = "vUndef", !.ctor = "Array"]
      \* an array whose first element is the array itself
      [] v = "vSelfArr" -> [V0 EXCEPT !.kind = "array", !.first = "vSelfArr", !.ctor = "Array"]
      [] v = "vPlain" -> [V0 EXCEPT !.kind = "object", !.ctor = "Plain"]
      [] v = "vNode" -> [V0 EXCEPT !.kind = "object", !.ctor = "Node"]
      [] v = "vPing" -> [V0 EXCEPT !.kind = "object", !.ctor = "Ping"]
      [] v = "vPong" -> [V0 EXCEPT !.kind = "object", !.ctor = "Pong"]
      \* Object.create(null): its constructor property is undefined
      [] v = "vBare" -> [V0 EXCEPT !.kind = "object"]
      [] v = "vFn" -> [V0 EXCEPT !.kind = "function", !.ctor = "fn"]

\* key.startsWith('_')
UnderscoreKeys == {"_secret"}

\* global[typeName] for the element names a source text can carry
GlobalType(n) == IF n \in {"Map", "Promise"} THEN n ELSE "undefined"

----------------------------------------------------------------------------
(* Schema inference engine.  Every function takes the machine state m (the *)
(* schema cache and whether the call stack was ever exhausted) and the     *)
(* depth d of its own stack frame, and returns the schema s, the machine   *)
(* state afterwards and the exception ex it raised ("none" if it returned).*)

M0(c) == [cache |-> c, overflow |-> FALSE]
Ret(s, m) == [s |-> s, m |-> m, ex |-> "none"]
\* a frame beyond the stack limit: the engine throws RangeError
Raise(m) == [s |-> Sch("object"), m |-> [m EXCEPT !.overflow = TRUE], ex |-> "RangeError"]
RetP(p, m) == [p |-> p, m |-> m, ex |-> "none"]
RaiseP(p, m, e) == [p |-> p, m |-> m, ex |-> e]

isArrayType(type) ==
    LET i == TypeInfo(type)
    IN i.kind # "falsy" /\ (type = "Array" \/ i.name = "Array" \/ i.srcHasArray)

RECURSIVE getTypeSchema(_, _, _)
RECURSIVE processArrayType(_, _, _)
RECURSIVE inferTypeFromName(_, _, _)
RECURSIVE processFunctionType(_, _, _)
RECURSIVE metadataLoop(_, _, _, _, _)
RECURSIVE tryExtractMetadataProperties(_, _, _, _)
RECURSIVE instanceLoop(_, _, _, _, _)
RECURSIVE tryInstantiateAndExtractProperties(_, _, _, _)
RECURSIVE objectLoop(_, _, _, _, _)
RECURSIVE processObjectInstance(_, _, _)
RECURSIVE inferSchemaFromValue(_, _, _)
RECURSIVE processArrayValue(_, _, _)

RECURSIVE scanLoop(_, _, _)
scanLoop(names, i, p) ==
    IF i > Len(names) THEN p
    ELSE scanLoop(names, i + 1, PropsPut(p, names[i], Sch("object")))

\* every `this.<name> =` of the constructor's source text becomes an opaque property
tryExtractPropertiesFromConstructorSource(type, p, m) ==
    RetP(scanLoop(TypeInfo(type).scanProps, 1, p), m)

\* every parameter name of the function's signature becomes an opaque property
tryExtractPropertiesFromFunction(type, p, m) ==
    RetP(scanLoop(TypeInfo(type).params, 1, p), m)

\* CacheResult without the final schemaCache.set: the placeholder stays cached
CacheResultKeepsPlaceholder(type, r) == r

\* schemaCache.set(type, schema) on the way out; an exception passes through
CacheResult(type, r) ==
    IF r.ex # "none" THEN r
    ELSE Ret(r.s, [r.m EXCEPT !.cache = CachePut(r.m.cache, type, r.s)])

getTypeSchemaPlaceholderStored(type, m1, d) ==
    LET k == TypeInfo(type).kind
    IN IF k = "falsy" THEN Ret(Sch("object"), m1)
       ELSE CacheResult(type,
              IF k = "String" THEN Ret(Sch("string"), m1)
              ELSE IF k \in {"Number", "BigInt"} THEN Ret(Sch("number"), m1)
              ELSE IF k = "Boolean" THEN Ret(Sch("boolean"), m1)
              ELSE IF k = "Date" THEN Ret(SchFmt("string", "date-time"), m1)
              ELSE IF k \in {"Buffer", "ArrayBuffer"} THEN Ret(SchFmt("string", "binary"), m1)
              ELSE IF isArrayType(type) THEN processArrayType(type, m1, d + 1)
              ELSE IF k = "Object" THEN Ret(Sch("object"), m1)
              ELSE IF k \in {"class", "function"} THEN processFunctionType(type, m1, d + 1)
              ELSE IF k = "instance" THEN processObjectInstance(type, m1, d + 1)
              ELSE Ret(Sch("object"), m1))

getTypeSchema(type, m, d) ==
    IF d > StackLimit THEN Raise(m)
    ELSE IF type \in DOMAIN m.cache /\ ~TypeInfo(type).fresh THEN Ret(m.cache[type], m)
    ELSE getTypeSchemaPlaceholderStored(
           type, [m EXCEPT !.cache = CachePut(m.cache, type, Sch("object"))], d)

\* { type: 'array', items: <the item schema> }
ArrayOf(r) == IF r.ex # "none" THEN r ELSE Ret(SchArray(r.s), r.m)

processArrayType(type, m, d) ==
    IF d > StackLimit THEN Raise(m)
    ELSE LET g == TypeInfo(type).generic
         IN ArrayOf(IF g = "" THEN Ret(Sch("object"), m) ELSE inferTypeFromName(g, m, d + 1))

\* try { return getTypeSchema(globalType) } catch (e) { return { type: 'object' } }
ObjectOnThrow(r) == IF r.ex # "none" THEN Ret(Sch("object"), r.m) ELSE r

inferTypeFromName(typeName, m, d) ==
    IF d > StackLimit THEN Raise(m)
    ELSE IF typeName \in {"string", "String"} THEN Ret(Sch("string"), m)
    ELSE IF typeName \in {"number", "Number"} THEN Ret(Sch("number"), m)
    ELSE IF typeName \in {"boolean", "Boolean"} THEN Ret(Sch("boolean"), m)
    ELSE IF typeName = "Date" THEN Ret(SchFmt("string", "date-time"), m)
    ELSE LET g == GlobalType(typeName)
         IN IF TypeInfo(g).kind \notin {"falsy", "instance", "other"}
            THEN ObjectOnThrow(getTypeSchema(g, m, d + 1))
            ELSE Ret(Sch("object"), m)

\* the schema made of the collected properties, or the named opaque object
PropertiesSchema(i, r) ==
    IF r.ex # "none" THEN [s |-> Sch("object"), m |-> r.m, ex |-> r.ex]
    ELSE IF DOMAIN r.p # {} THEN Ret(SchProps(r.p), r.m)
    ELSE Ret(SchNamed(IF i.name = "" THEN "Unknown" ELSE i.name), r.m)

\* if (Object.keys(properties).length === 0) tryInstantiateAndExtractProperties(...)
InstantiateIfEmpty(type, r1, d) ==
    IF r1.ex # "none" THEN r1
    ELSE IF DOMAIN r1.p = {} THEN tryInstantiateAndExtractProperties(type, r1.p, r1.m, d)
    ELSE r1

processFunctionType(type, m, d) ==
    IF d > StackLimit THEN Raise(m)
    ELSE PropertiesSchema(TypeInfo(type),
           IF TypeInfo(type).hasPrototype
           THEN InstantiateIfEmpty(type,
                  tryExtractMetadataProperties(type, NoProps, m, d + 1), d + 1)
           ELSE tryExtractPropertiesFromFunction(type, NoProps, m))

\* properties[propName] = getTypeSchema(propType), then the next property
metadataStep(list, i, p, d, r) ==
    IF r.ex # "none" THEN RaiseP(p, r.m, r.ex)
    ELSE metadataLoop(list, i + 1, PropsPut(p, list[i][1], r.s), r.m, d)

metadataLoop(list, i, p, m, d) ==
    IF i > Len(list) THEN RetP(p, m)
    ELSE metadataStep(list, i, p, d, getTypeSchema(list[i][2], m, d + 1))

\* catch (e) {}: continue with what was collected
ContinueOnThrow(r) == RetP(r.p, r.m)

tryExtractMetadataProperties(type, p, m, d) ==
    IF d > StackLimit THEN RaiseP(p, Raise(m).m, "RangeError")
    ELSE ContinueOnThrow(metadataLoop(TypeInfo(type).metaProps, 1, p, m, d))

\* properties[key] = inferSchemaFromValue(instance[key]), then the next key
instanceStep(list, i, p, d, r) ==
    IF r.ex # "none" THEN RaiseP(p, r.m, r.ex)
    ELSE instanceLoop(list, i + 1, PropsPut(p, list[i][1], r.s), r.m, d)

instanceLoop(list, i, p, m, d) ==
    IF i > Len(list) THEN RetP(p, m)
    ELSE IF list[i][1] = "constructor" \/ list[i][1] \in UnderscoreKeys
         THEN instanceLoop(list, i + 1, p, m, d)
    ELSE instanceStep(list, i, p, d, inferSchemaFromValue(list[i][2], m, d + 1))

\* catch (e) { tryExtractPropertiesFromConstructorSource(type, properties) }
SourceScanOnThrow(type, r) ==
    IF r.ex # "none" THEN tryExtractPropertiesFromConstructorSource(type, r.p, r.m)
    ELSE r

tryInstantiateAndExtractProperties(type, p, m, d) ==
    IF d > StackLimit THEN RaiseP(p, Raise(m).m, "RangeError")
    ELSE IF TypeInfo(type).ctorThrows
         THEN tryExtractPropertiesFromConstructorSource(type, p, m)
    ELSE SourceScanOnThrow(type, instanceLoop(TypeInfo(type).fields, 1, p, m, d))

\* properties[key] = inferSchemaFromValue(value), then the next entry
objectStep(list, i, p, d, r) ==
    IF r.ex # "none" THEN RaiseP(p, r.m, r.ex)
    ELSE objectLoop(list, i + 1, PropsPut(p, list[i][1], r.s), r.m, d)

objectLoop(list, i, p, m, d) ==
    IF i > Len(list) THEN RetP(p, m)
    ELSE objectStep(list, i, p, d, inferSchemaFromValue(list[i][2], m, d + 1))

\* { type: 'object', properties }
ObjectOf(r) ==
    IF r.ex # "none" THEN [s |-> Sch("object"), m |-> r.m, ex |-> r.ex]
    ELSE Ret(SchProps(r.p), r.m)

processObjectInstance(obj, m, d) ==
    IF d > StackLimit THEN Raise(m)
    ELSE ObjectOf(objectLoop(TypeInfo(obj).fields, 1, NoProps, m, d))

inferSchemaFromValue(value, m, d) ==
    IF d > StackLimit THEN Raise(m)
    ELSE LET k == ValueInfo(value).kind
         IN IF k \in {"undefined", "null"} THEN Ret(Sch("object"), m)
            ELSE IF k = "string" THEN Ret(Sch("string"), m)
            ELSE IF k = "number" THEN Ret(Sch("number"), m)
            ELSE IF k = "boolean" THEN Ret(Sch("boolean"), m)
            ELSE IF k = "date" THEN Ret(SchFmt("string", "date-time"), m)
            ELSE IF k = "array" THEN processArrayValue(value, m, d + 1)
            ELSE IF k = "object" THEN getTypeSchema(ValueInfo(value).ctor, m, d + 1)
            ELSE Ret(Sch("object"), m)

processArrayValue(arr, m, d) ==
    IF d > StackLimit THEN Raise(m)
    ELSE LET f == ValueInfo(arr).first
         IN ArrayOf(IF f # "" /\ ValueInfo(f).kind # "undefined"
                    THEN inferSchemaFromValue(f, m, d + 1)
                    ELSE Ret(Sch("object"), m))

----------------------------------------------------------------------------
(* Direct calls into the schema engine                                     *)

NoInfer == [fn |-> "none", arg |-> "", s |-> Sch("object"), ex |-> "none", overflow |-> FALSE]

InferOutcome(fn, arg, r) ==
    [fn |-> fn, arg |-> arg, s |-> r.s, ex |-> r.ex, overflow |-> r.m.overflow]

UnchangedStore == UNCHANGED <<controllers, routes, pendingParams>>
UnchangedApp == apiDoc' = NoDoc /\ UNCHANGED <<openApiJson, appStack, instances, reqs, process>>

\* the cache the call left behind and what it returned or raised
RecordInfer(fn, arg, r) ==
    /\ schemaCache' = r.m.cache
    /\ lastInfer' = InferOutcome(fn, arg, r)

CallGetTypeSchema(type) ==
    /\ inferCalls < MaxInferCalls
    /\ RecordInfer("getTypeSchema", type, getTypeSchema(type, M0(schemaCache), 1))
    /\ inferCalls' = inferCalls + 1
    /\ UnchangedStore /\ UnchangedApp

CallInferSchemaFromValue(value) ==
    /\ inferCalls < MaxInferCalls
    /\ RecordInfer("inferSchemaFromValue", value,
                   inferSchemaFromValue(value, M0(schemaCache), 1))
    /\ inferCalls' = inferCalls + 1
    /\ UnchangedStore /\ UnchangedApp

----------------------------------------------------------------------------
(* The program text the decorators are applied to: two controller classes  *)
(* and the handler methods they declare.  Sig(h) is what the compiler      *)
(* emits for a method ('design:paramtypes', 'design:returntype') and what  *)
(* the text of its first return statement looks like.                      *)

Classes == {"A", "B"}
Handlers == {"h0", "h1", "h2", "h3", "h4", "h5", "h6"}
Methods == {"get", "post", "put", "delete", "patch"}

Sig(h) ==
    CASE h = "h0" -> [paramTypes |-> <<>>, returnType |-> "undefined", ret |-> "none"]         \* list() {}
      [] h = "h1" -> [paramTypes |-> <<"Plain">>, returnType |-> "undefined", ret |-> "other"] \* create(dto) { return { id: 1 } }
      [] h = "h2" -> [paramTypes |-> <<>>, returnType |-> "Array", ret |-> "arrayLit"]         \* all(): Item[] { return [] }
      [] h = "h3" -> [paramTypes |-> <<"Plain">>, returnType |-> "Plain", ret |-> "body"]      \* save(body: Plain): Plain { return body }
      [] h = "h4" -> [paramTypes |-> <<"Plain">>, returnType |-> "ArrayGen", ret |-> "other"]  \* page(q: Plain): ArrayGen { return new ArrayGen() }
      [] h = "h5" -> [paramTypes |-> <<"Plain">>, returnType |-> "ArrayGen", ret |-> "param0"] \* wrap(param0: Plain): ArrayGen { return param0 }
      [] h = "h6" -> [paramTypes |-> <<>>, returnType |-> "ArrayList", ret |-> "other"]        \* rest(): ArrayList { return this.list }

----------------------------------------------------------------------------
(* Metadata Store (metadata.ts).  controllers is a Map: a sequence of      *)
(* entries in insertion order, one per key.                                *)

ControllerIndex(ctrls, cls) ==
    IF \E i \in 1..Len(ctrls) : ctrls[i].cls = cls
    THEN CHOOSE i \in 1..Len(ctrls) : ctrls[i].cls = cls
    ELSE 0

HasController(ctrls, cls) == ControllerIndex(ctrls, cls) # 0

\* addControllerMetadata that adds an entry whether or not the key is present
addControllerMetadataAppends(ctrls, target, metadata) ==
    Append(ctrls, [cls |-> target, path |-> metadata.path, tags |-> metadata.tags])

\* Map.prototype.set: an existing key keeps its position
addControllerMetadata(ctrls, target, metadata) ==
    LET e == [cls |-> target, path |-> metadata.path, tags |-> metadata.tags]
        i == ControllerIndex(ctrls, target)
    IN IF i = 0 THEN Append(ctrls, e) ELSE [ctrls EXCEPT ![i] = e]

\* addRouteMetadata that puts the new entry in front of the list
addRouteMetadataAtFront(rts, target, metadata) ==
    [rts EXCEPT ![target] = <<metadata>> \o rts[target]]

addRouteMetadata(rts, target, metadata) ==
    [rts EXCEPT ![target] = Append(rts[target], metadata)]

RECURSIVE SumLens(_, _)
SumLens(f, S) ==
    IF S = {} THEN 0
    ELSE LET x == CHOOSE y \in S : TRUE IN Len(f[x]) + SumLens(f, S \ {x})

TotalRoutes == SumLens(routes, Classes)

----------------------------------------------------------------------------
(* Annotation layer (decorators.ts)                                        *)

Slash == <<"/">>

\* Controller(path, options)(target)
Controller(target, path, tags) ==
    /\ LET controllerPath == IF StartsWithSlash(path) THEN path ELSE Slash \o path
       IN controllers' = addControllerMetadata(controllers, target,
                                               [path |-> controllerPath, tags |-> tags])
    /\ UNCHANGED <<routes, pendingParams, schemaCache, lastInfer, inferCalls>>
    /\ UNCHANGED <<openApiJson, appStack, instances, reqs, process>>
    /\ apiDoc' = NoDoc

BodyParam(required, description, schema) ==
    [name |-> "body", in |-> "body", required |-> required, type |-> "object",
     description |-> description, schema |-> <<schema>>]

\* existingParameters.push(paramMetadata); a schema that could not be inferred
\* leaves the pending list as it was
PushBody(cls, propertyKey, options, r) ==
    /\ schemaCache' = r.m.cache
    /\ pendingParams' =
         IF r.ex # "none" THEN pendingParams
         ELSE [pendingParams EXCEPT ![cls, propertyKey] =
                 Append(@, BodyParam(options.required # <<FALSE>>,
                                     IF options.description \in {<<>>, <<"">>} THEN "Request body"
                                     ELSE options.description[1],
                                     r.s))]

\* Body(options)(target, propertyKey, parameterIndex)
Body(cls, propertyKey, options, parameterIndex) ==
    /\ Len(pendingParams[cls, propertyKey]) < MaxBodies
    /\ LET paramTypes == Sig(propertyKey).paramTypes
           paramType == IF parameterIndex + 1 \in DOMAIN paramTypes
                        THEN paramTypes[parameterIndex + 1] ELSE "undefined"
       IN PushBody(cls, propertyKey, options, getTypeSchema(paramType, M0(schemaCache), 1))
    /\ UNCHANGED <<controllers, routes, lastInfer, inferCalls>>
    /\ UNCHANGED <<openApiJson, appStack, instances, reqs, process>>
    /\ apiDoc' = NoDoc

Response(description, content) == [description |-> description, content |-> content]

\* catch (e) { schema = { type: 'array', items: getTypeSchema({}) } }
RetryWithFreshObject(r) ==
    IF r.ex # "none" THEN ArrayOf(getTypeSchema("objEmpty", r.m, 1)) ELSE r

\* catch (e) { schema = getTypeSchema(returnType) }
RetryWithReturnType(returnType, r) ==
    IF r.ex # "none" THEN getTypeSchema(returnType, r.m, 1) ELSE r

\* the schema of the default success response (the body of `if (!hasSuccessResponse
\* && returnType)`); a source text with 'Array<' or '[]' is one with a generic element
SuccessSchema(method, sg, parameters, m) ==
    LET returnType == sg.returnType
        paramTypes == sg.paramTypes
        opaque == Ret(SchArray(Sch("object")), m)
        bodies == SelectSeq(parameters, LAMBDA q : q.in = "body")
        returnsParam0 == sg.ret = "param0" /\ Len(paramTypes) > 0
        returnsBody == /\ \/ sg.ret \in {"requestBody", "param0"}
                          \/ (sg.ret = "body" /\ Len(parameters) > 0)
                       /\ Len(bodies) > 0
                       /\ bodies[1].schema # <<>>
    IN IF isArrayType(returnType)
       THEN IF TypeInfo(returnType).generic # ""
            THEN RetryWithFreshObject(
                   IF sg.ret = "arrayLit" THEN opaque
                   ELSE ArrayOf(getTypeSchema(IF returnsParam0 THEN paramTypes[1]
                                              ELSE "objEmpty", m, 1)))
            ELSE opaque
       ELSE RetryWithReturnType(returnType,
              IF returnsBody THEN Ret(bodies[1].schema[1], m)
              ELSE getTypeSchema(returnType, m, 1))

\* SuccessCode answering '200' for every method
SuccessCodeAlways200(method) == "200"

\* const successCode = method === 'post' ? '201' : '200'
SuccessCode(method) == IF method = "post" THEN "201" ELSE "200"

\* pendingResponses plus the default success entry
Responses(method, pendingResponses, addDefault, rs) ==
    IF addDefault
    THEN PropsPut(pendingResponses, SuccessCode(method),
                  Response(IF method = "post" THEN "Created successfully"
                           ELSE "Successful response", <<rs.s>>))
    ELSE pendingResponses

\* the object handed to addRouteMetadata; ...options comes last, so every option
\* given replaces the captured field
RouteMetadata(method, propertyKey, path, parameters, responses, options) ==
    LET captured == [method |-> method,
                     path |-> IF path = Slash THEN Slash
                              ELSE IF StartsWithSlash(path) THEN path ELSE Slash \o path,
                     handlerName |-> propertyKey,
                     parameters |-> <<parameters>>,
                     responses |-> <<responses>>,
                     summary |-> <<>>,
                     tags |-> <<>>]
    IN [k \in DOMAIN captured |-> IF k \in DOMAIN options THEN options[k] ELSE captured[k]]

\* MetadataStorage.getInstance().addRouteMetadata(target.constructor, {...}); a
\* schema inference that raised leaves the store as it was
StoreRoute(method, cls, propertyKey, path, pendingResponses, options, parameters, addDefault, rs) ==
    /\ schemaCache' = rs.m.cache
    /\ routes' = IF rs.ex # "none" THEN routes
                 ELSE addRouteMetadata(routes, cls,
                        RouteMetadata(method, propertyKey, path, parameters,
                                      Responses(method, pendingResponses, addDefault, rs),
                                      options))

\* the decorator from `const pendingResponses` on, rb being the outcome of the
\* schema inference for the synthesised body parameter
AfterParameters(method, cls, propertyKey, path, pendingResponses, options, parameters, rb) ==
    LET sg == Sig(propertyKey)
        hasSuccessResponse == "200" \in DOMAIN pendingResponses
                              \/ "201" \in DOMAIN pendingResponses
        addDefault == ~hasSuccessResponse /\ TypeInfo(sg.returnType).kind # "falsy"
    IN StoreRoute(method, cls, propertyKey, path, pendingResponses, options, parameters,
                  addDefault,
                  IF rb.ex # "none" THEN rb
                  ELSE IF addDefault THEN SuccessSchema(method, sg, parameters, rb.m)
                  ELSE Ret(Sch("object"), rb.m))

\* parameters.push({ name: 'body', in: 'body', required: true, ... })
SynthesisedBody(method, cls, propertyKey, path, pendingResponses, options, rb) ==
    AfterParameters(method, cls, propertyKey, path, pendingResponses, options,
                    <<BodyParam(TRUE, "Request body", rb.s)>>, rb)

\* createMethodDecorator(method)(path, options)(target, propertyKey, descriptor)
MethodDecorator(method, cls, propertyKey, path, pendingResponses, options) ==
    /\ LET sg == Sig(propertyKey)
           decoratedParameters == pendingParams[cls, propertyKey]
       IN IF /\ Len(decoratedParameters) = 0
             /\ method \in {"post", "put", "patch"}
             /\ Len(sg.paramTypes) > 0
          THEN SynthesisedBody(method, cls, propertyKey, path, pendingResponses, options,
                               getTypeSchema(sg.paramTypes[1], M0(schemaCache), 1))
          ELSE AfterParameters(method, cls, propertyKey, path, pendingResponses, options,
                               decoratedParameters, Ret(Sch("object"), M0(schemaCache)))
    /\ UNCHANGED <<controllers, pendingParams, lastInfer, inferCalls>>
    /\ UNCHANGED <<openApiJson, appStack, instances, reqs, process>>
    /\ apiDoc' = NoDoc

----------------------------------------------------------------------------
(* Specification Builder (openapi.ts)                                      *)

\* RequestBody that marks every request body as required
RequestBodyAlwaysRequired(bodyParam) ==
    [description |-> IF bodyParam.description = "" THEN "Request body" ELSE bodyParam.description,
     required |-> TRUE,
     schema |-> IF bodyParam.schema = <<>> THEN Sch("object") ELSE bodyParam.schema[1]]

RequestBody(bodyParam) ==
    [description |-> IF bodyParam.description = "" THEN "Request body" ELSE bodyParam.description,
     required |-> bodyParam.required # FALSE,
     schema |-> IF bodyParam.schema = <<>> THEN Sch("object") ELSE bodyParam.schema[1]]

DefaultResponses == [x \in {"200"} |-> Response("Successful response", <<>>)]

\* OtherParams without the filter: every parameter stays in the parameters array
OtherParamsUnfiltered(params) == params

\* route.parameters.filter(param => param.in !== 'body')
OtherParams(params) == SelectSeq(params, LAMBDA q : q.in # "body")

\* the routeSpec object built for one route
RouteSpec(controllerMetadata, route) ==
    LET params == IF route.parameters = <<>> THEN <<>> ELSE route.parameters[1]
        bodyParams == SelectSeq(params, LAMBDA q : q.in = "body")
        otherParams == OtherParams(params)
    IN [summary |-> route.summary,
        tags |-> controllerMetadata.tags \o route.tags,
        responses |-> IF route.responses = <<>> THEN DefaultResponses ELSE route.responses[1],
        parameters |-> IF Len(otherParams) > 0 THEN <<otherParams>> ELSE <<>>,
        requestBody |-> IF Len(bodyParams) > 0 THEN <<RequestBody(bodyParams[1])>> ELSE <<>>]

\* FullPath with the `routePath === '/' ? '' : routePath` test left out
FullPathKeepsRootRoute(basePrefix, controllerMetadata, route) ==
    LET basePath == IF StartsWithSlash(controllerMetadata.path) THEN controllerMetadata.path
                    ELSE Slash \o controllerMetadata.path
        routePath == IF StartsWithSlash(route.path) THEN route.path ELSE Slash \o route.path
    IN ReplaceSlashRuns(basePrefix \o basePath \o routePath)

FullPath(basePrefix, controllerMetadata, route) ==
    LET basePath == IF StartsWithSlash(controllerMetadata.path) THEN controllerMetadata.path
                    ELSE Slash \o controllerMetadata.path
        routePath == IF StartsWithSlash(route.path) THEN route.path ELSE Slash \o route.path
    IN ReplaceSlashRuns(basePrefix \o basePath \o (IF routePath = Slash THEN <<>> ELSE routePath))

\* PathsPut that keeps the operation already written under the method
PathsPutKeepsFirst(paths, fullPath, method, routeSpec) ==
    IF fullPath \in DOMAIN paths /\ method \in DOMAIN paths[fullPath] THEN paths
    ELSE PropsPut(paths, fullPath,
                  PropsPut(IF fullPath \in DOMAIN paths THEN paths[fullPath] ELSE <<>>,
                           method, routeSpec))

\* spec.paths[fullPath][route.method] = routeSpec
PathsPut(paths, fullPath, method, routeSpec) ==
    LET ops == IF fullPath \in DOMAIN paths THEN paths[fullPath] ELSE <<>>
    IN PropsPut(paths, fullPath, PropsPut(ops, method, routeSpec))

RECURSIVE RoutesForEach(_, _, _, _, _)
RoutesForEach(paths, basePrefix, controllerMetadata, rts, i) ==
    IF i > Len(rts) THEN paths
    ELSE RoutesForEach(PathsPut(paths, FullPath(basePrefix, controllerMetadata, rts[i]),
                                rts[i].method, RouteSpec(controllerMetadata, rts[i])),
                       basePrefix, controllerMetadata, rts, i + 1)

RECURSIVE ControllersForEach(_, _, _, _, _)
ControllersForEach(paths, basePrefix, ctrls, rts, j) ==
    IF j > Len(ctrls) THEN paths
    ELSE ControllersForEach(RoutesForEach(paths, basePrefix, ctrls[j], rts[ctrls[j].cls], 1),
                            basePrefix, ctrls, rts, j + 1)

DefaultServers == <<"/">>

\* options.servers is <<>> when undefined, <<list>> when given; options.base likewise
generateOpenAPISpec(options, ctrls, rts) ==
    [generated |-> TRUE,
     servers |-> IF options.servers = <<>> THEN DefaultServers ELSE options.servers[1],
     paths |-> ControllersForEach(<<>>, IF options.base = <<>> THEN <<>> ELSE options.base[1],
                                  ctrls, rts, 1)]

\* GenerateOpenAPISpec that takes the routes out of the store as it documents them
GenerateConsumesRoutes(options) ==
    /\ apiDoc' = generateOpenAPISpec(options, controllers, routes)
    /\ routes' = [c \in Classes |-> <<>>]
    /\ UNCHANGED <<controllers, pendingParams, schemaCache, lastInfer, inferCalls>>
    /\ UNCHANGED <<openApiJson, appStack, instances, reqs, process>>

GenerateOpenAPISpec(options) ==
    /\ apiDoc' = generateOpenAPISpec(options, controllers, routes)
    /\ UNCHANGED <<controllers, routes, pendingParams, schemaCache, lastInfer, inferCalls>>
    /\ UNCHANGED <<openApiJson, appStack, instances, reqs, process>>

----------------------------------------------------------------------------
(* Route Binder (register.ts)                                              *)

\* RouterFor that hands every router the instance created first
RouterForFirstInstance(ControllerClass, inst, base, ctrls, rts) ==
    LET i == ControllerIndex(ctrls, ControllerClass)
        basePath == IF i = 0 THEN <<>> ELSE ctrls[i].path
        normalizedBasePath == IF StartsWithSlash(basePath) THEN basePath ELSE Slash \o basePath
    IN [cls |-> ControllerClass,
        instance |-> 1,
        mount |-> ReplaceSlashRuns(base \o normalizedBasePath),
        routes |-> [r \in 1..Len(rts[ControllerClass]) |->
                       [method |-> rts[ControllerClass][r].method,
                        routePath |-> IF rts[ControllerClass][r].path = <<>> THEN Slash
                                      ELSE rts[ControllerClass][r].path,
                        handlerName |-> rts[ControllerClass][r].handlerName]]]

\* the Router built for the k-th class of the controllers array
RouterFor(ControllerClass, inst, base, ctrls, rts) ==
    LET i == ControllerIndex(ctrls, ControllerClass)
        basePath == IF i = 0 THEN <<>> ELSE ctrls[i].path
        normalizedBasePath == IF StartsWithSlash(basePath) THEN basePath ELSE Slash \o basePath
    IN [cls |-> ControllerClass,
        instance |-> inst,
        mount |-> ReplaceSlashRuns(base \o normalizedBasePath),
        routes |-> [r \in 1..Len(rts[ControllerClass]) |->
                       [method |-> rts[ControllerClass][r].method,
                        routePath |-> IF rts[ControllerClass][r].path = <<>> THEN Slash
                                      ELSE rts[ControllerClass][r].path,
                        handlerName |-> rts[ControllerClass][r].handlerName]]]

\* registerControllers(app, controllers, openApiDoc); the Swagger UI mounted at
\* '/swagger' serves no controller route and is left out of appStack
RegisterControllers(ctrlArray, openApiDoc) ==
    /\ LET base == IF openApiDoc.base = <<>> THEN <<>> ELSE openApiDoc.base[1]
           doc == generateOpenAPISpec(
                      [servers |-> <<IF openApiDoc.servers = <<>> THEN <<>> ELSE openApiDoc.servers[1]>>,
                       base |-> <<base>>],
                      controllers, routes)
       IN /\ apiDoc' = NoDoc
          /\ openApiJson' = doc
          /\ appStack' = appStack \o [k \in 1..Len(ctrlArray) |->
                             RouterFor(ctrlArray[k], instances + k, base, controllers, routes)]
    /\ instances' = instances + Len(ctrlArray)
    /\ UNCHANGED <<controllers, routes, pendingParams, schemaCache, lastInfer, inferCalls, reqs, process>>

----------------------------------------------------------------------------
(* Request dispatch: the async function that registerControllers binds to  *)
(* every route (register.ts 66-76), run against an Express 4 response.     *)

Requests == {1, 2}

\* what a handler can do: touch the response it is handed (leave it alone, set
\* its status, or send it), settle at once or through a promise, and return a
\* value or throw
ReturnValues == {"undefined", "obj", "text", "n404"}
ThrownValues == {"Error:x", "Error:", "string", "null", "undefined"}
HandlerRuns ==
    [touch : {"none", "status", "send"}, async : BOOLEAN,
     outcome : [kind : {"return"}, value : ReturnValues]
               \cup [kind : {"throw"}, value : ThrownValues]]

NoRun == [touch |-> "none", async |-> FALSE, outcome |-> [kind |-> "return", value |-> "undefined"]]
NewRes == [statusCode |-> 200, headersSent |-> FALSE, sent |-> <<>>]
IdleReq == [pc |-> "idle", router |-> 0, route |-> 0, instance |-> 0, run |-> NoRun,
            res |-> NewRes, dispatch |-> "none"]

\* res.status(code)
Status(res, code) == [res EXCEPT !.statusCode = code]

\* res.send(body): throws once the headers are sent; a lone number is the status
Send(res, body) ==
    IF res.headersSent THEN [res |-> res, threw |-> <<"Error:ERR_HTTP_HEADERS_SENT">>]
    ELSE LET status == IF body = "n404" THEN 404 ELSE res.statusCode
             text == IF body = "n404" THEN "Not Found" ELSE body
         IN [res |-> [statusCode |-> status, headersSent |-> TRUE,
                      sent |-> Append(res.sent, [status |-> status, body |-> text, by |-> "dispatch"])],
             threw |-> <<>>]

\* error.message: <<>> when the value has no such property
Message(err) ==
    CASE err = "Error:x" -> <<"x">>
      [] err = "Error:" -> <<"">>
      [] err = "Error:ERR_HTTP_HEADERS_SENT" -> <<"Cannot set headers after they are sent to the client">>
      [] OTHER -> <<>>

\* catch (err) { res.status(500).send(error.message || 'Internal Server Error') }
CatchBlock(res, err) ==
    IF err \in {"null", "undefined"}
    THEN [res |-> res, dispatch |-> "rejected"]   \* TypeError: reading 'message'
    ELSE LET msg == Message(err)
             r == Send(Status(res, 500),
                       IF msg = <<>> \/ msg = <<"">> THEN "Internal Server Error" ELSE msg[1])
         IN [res |-> r.res, dispatch |-> IF r.threw = <<>> THEN "returned" ELSE "rejected"]

\* AfterAwait that writes no response for a returned value
AfterAwaitDropsResult(res, outcome) ==
    IF outcome.kind = "throw" THEN CatchBlock(res, outcome.value)
    ELSE [res |-> res, dispatch |-> "returned"]

\* the rest of the try block once the handler has settled
AfterAwait(res, outcome) ==
    IF outcome.kind = "throw" THEN CatchBlock(res, outcome.value)
    ELSE IF outcome.value = "undefined" THEN [res |-> res, dispatch |-> "returned"]
    ELSE LET r == Send(res, outcome.value)
         IN IF r.threw = <<>> THEN [res |-> r.res, dispatch |-> "returned"]
            ELSE CatchBlock(r.res, r.threw[1])

\* the handler's own use of the response object
Touched(res, touch) ==
    IF touch = "status" THEN Status(res, 201)
    ELSE IF touch = "send"
         THEN [statusCode |-> res.statusCode, headersSent |-> TRUE,
               sent |-> Append(res.sent, [status |-> res.statusCode, body |-> "own", by |-> "handler"])]
    ELSE res

\* a rejected dispatch promise is handled by nobody: Node warns or terminates
AfterDispatch(result) ==
    IF result = "rejected" THEN process' \in {"running", "crashed"} ELSE process' = "running"

UnchangedMeta ==
    UNCHANGED <<controllers, routes, pendingParams, schemaCache, lastInfer, inferCalls,
                openApiJson, appStack, instances>>

\* a request reaches route j of router i: the bound function calls the handler
Dispatch(r, i, j, run) ==
    /\ process = "running"
    /\ reqs[r].pc = "idle"
    /\ i \in DOMAIN appStack /\ j \in DOMAIN appStack[i].routes
    /\ LET res == Touched(NewRes, run.touch)
           started == [IdleReq EXCEPT !.router = i, !.route = j, !.run = run,
                                      !.instance = appStack[i].instance]
           fin == AfterAwait(res, run.outcome)
       IN IF run.async
          THEN /\ reqs' = [reqs EXCEPT ![r] = [started EXCEPT !.pc = "awaiting", !.res = res,
                                                             !.dispatch = "pending"]]
               /\ process' = process
          ELSE /\ reqs' = [reqs EXCEPT ![r] = [started EXCEPT !.pc = "done", !.res = fin.res,
                                                             !.dispatch = fin.dispatch]]
               /\ AfterDispatch(fin.dispatch)
    /\ apiDoc' = NoDoc
    /\ UnchangedMeta

\* the promise returned by the handler settles
Settle(r) ==
    /\ process = "running"
    /\ reqs[r].pc = "awaiting"
    /\ LET fin == AfterAwait(reqs[r].res, reqs[r].run.outcome)
       IN /\ reqs' = [reqs EXCEPT ![r] = [@ EXCEPT !.pc = "done", !.res = fin.res,
                                                  !.dispatch = fin.dispatch]]
          /\ AfterDispatch(fin.dispatch)
    /\ apiDoc' = NoDoc
    /\ UnchangedMeta

----------------------------------------------------------------------------
Init ==
    /\ controllers = <<>>
    /\ routes = [c \in Classes |-> <<>>]
    /\ pendingParams = [k \in Classes \X Handlers |-> <<>>]
    /\ schemaCache = <<>>
    /\ lastInfer = NoInfer
    /\ inferCalls = 0
    /\ apiDoc = NoDoc
    /\ openApiJson = NoDoc
    /\ appStack = <<>>
    /\ instances = 0
    /\ reqs = [r \in Requests |-> IdleReq]
    /\ process = "running"

NextSchema ==
    \/ \E type \in TypeIds : CallGetTypeSchema(type)
    \/ \E value \in ValueIds : CallInferSchemaFromValue(value)

SpecSchema == Init /\ [][NextSchema]_vars

----------------------------------------------------------------------------
(* Path composition: one controller class, routes without parameters,      *)
(* every shape of controller path, route path and base prefix.             *)

CtrlPathInputs == {<<"u">>, <<"/", "u">>, <<"/">>, <<"/", "/", "u">>}
RoutePathInputs == {<<>>, <<"/">>, <<"i">>, <<"/", "i">>, <<"/", "/", "i">>}
BaseInputs == {<<>>, << <<"/", "v">> >>, << <<"v">> >>, << <<"/", "v", "/">> >>}
ServerInputs == {<<>>, << <<"http://api">> >>}
OptionInputs == [servers : ServerInputs, base : BaseInputs]
ControllerArrays == {<<>>, <<"A">>, <<"A", "A">>}

\* decorators run while the modules are evaluated, before registerControllers;
\* a document asked for directly is asked for before the application is bound
Declaring == ~openApiJson.generated

Next ==
    \/ Declaring /\ \E path \in CtrlPathInputs : Controller("A", path, <<>>)
    \/ Declaring /\ TotalRoutes < MaxRoutes
          /\ \E method \in {"get", "post"}, path \in RoutePathInputs :
           MethodDecorator(method, "A", "h0", path, <<>>, <<>>)
    \/ Declaring /\ \E options \in OptionInputs : GenerateOpenAPISpec(options)
    \/ Declaring /\ \E arr \in ControllerArrays, options \in OptionInputs :
           RegisterControllers(arr, options)

Spec == Init /\ [][Next]_vars

----------------------------------------------------------------------------
(* Route capture: one controller at '/u', every HTTP method and handler    *)
(* signature, @Body parameters, explicitly supplied responses and options. *)

BodyOptionInputs == {[description |-> <<>>, required |-> <<>>],
                     [description |-> <<"Test body">>, required |-> <<FALSE>>],
                     [description |-> <<"">>, required |-> <<TRUE>>]}

Explicit(codes) == [c \in codes |-> Response("explicit", <<>>)]

QueryParam == [name |-> "q", in |-> "query", required |-> FALSE, type |-> "string",
               description |-> "", schema |-> <<>>]

\* a body parameter given through the options with neither description nor schema
BareBodyParam == [name |-> "body", in |-> "body", required |-> TRUE, type |-> "object",
                  description |-> "", schema |-> <<>>]

\* the 'openapi:responses' metadata found and the options given to the decorator
CaptureInputs ==
    {[pending |-> Explicit(codes), options |-> <<>>] : codes \in {{}, {"404"}, {"200"}, {"201"}}}
    \cup {[pending |-> <<>>, options |-> [responses |-> <<Explicit({"204"})>>]],
          [pending |-> <<>>,
           options |-> [parameters |-> << <<QueryParam, BodyParam(TRUE, "", Sch("string"))>> >>]],
          [pending |-> <<>>,
           options |-> [parameters |-> << <<BareBodyParam,
                                            BodyParam(FALSE, "second", Sch("string"))>> >>]]}

NoOptions == [servers |-> <<>>, base |-> <<>>]

\* the parameter decorators of a method are applied before its method decorator
NotCaptured(cls, h) == \A i \in DOMAIN routes[cls] : routes[cls][i].handlerName # h

\* the handlers of the captured controller
CaptureHandlers == {"h0", "h1", "h2", "h3"}

NextCapture ==
    \/ Declaring /\ Controller("A", <<"/", "u">>, <<>>)
    \/ Declaring /\ NotCaptured("A", "h3")
          /\ \E options \in BodyOptionInputs : Body("A", "h3", options, 0)
    \/ Declaring /\ TotalRoutes < MaxCaptures
          /\ \E method \in Methods, h \in CaptureHandlers, in \in CaptureInputs :
                 MethodDecorator(method, "A", h, Slash, in.pending, in.options)
    \/ GenerateOpenAPISpec(NoOptions)

SpecCapture == Init /\ [][NextCapture]_vars

----------------------------------------------------------------------------
(* Registration and dispatch: one controller bound by registerControllers  *)
(* and then served; requests are taken in the order of their ids.          *)

NextDispatch ==
    \/ Declaring /\ Controller("A", <<"/", "u">>, <<>>)
    \/ Declaring /\ TotalRoutes < MaxCaptures
          /\ \E method \in {"get", "post", "delete"} :
                 MethodDecorator(method, "A", "h0", Slash, <<>>, <<>>)
    \/ Declaring /\ RegisterControllers(<<"A">>, NoOptions)
    \/ \E r \in Requests, i \in {1}, j \in 1..MaxCaptures, run \in HandlerRuns :
           /\ \A q \in Requests : q < r => reqs[q].pc # "idle"
           /\ Dispatch(r, i, j, run)
    \/ \E r \in Requests : Settle(r)

SpecDispatch == Init /\ [][NextDispatch]_vars

\* the event loop runs the continuation of every await whose promise settled
SpecDispatchLive == SpecDispatch /\ WF_vars(\E r \in Requests : Settle(r))

----------------------------------------------------------------------------
(* The Metadata Store under registrations for two controller classes and   *)
(* the reset used between test cases.                                      *)

MaxStored == 2       \* route decorators applied between two resets

\* resetMetadataStorage that forgets the controllers but keeps the route lists
\* success responses of handlers whose return type is array-like: the Array
\* constructor (h2), a class whose text holds 'Array<' (h4, h5) and one whose
\* text holds 'Array' only (h6), with the responses found under 'openapi:responses'
ReturnHandlers == {"h2", "h4", "h5", "h6"}
ReturnInputs == {<<>>, Explicit({"404"}), Explicit({"200"})}

NextReturn ==
    \/ Controller("A", <<"/", "u">>, <<>>)
    \/ TotalRoutes < MaxCaptures
          /\ \E method \in Methods, h \in ReturnHandlers, pending \in ReturnInputs :
                 MethodDecorator(method, "A", h, Slash, pending, <<>>)
    \/ GenerateOpenAPISpec(NoOptions)

SpecReturn == Init /\ [][NextReturn]_vars

ResetKeepsRoutes ==
    /\ controllers' = <<>>
    /\ apiDoc' = NoDoc
    /\ UNCHANGED <<routes, pendingParams, schemaCache, lastInfer, inferCalls>>
    /\ UNCHANGED <<openApiJson, appStack, instances, reqs, process>>

\* resetMetadataStorage(): a new singleton with two empty maps
resetMetadataStorage ==
    /\ controllers' = <<>>
    /\ routes' = [c \in Classes |-> <<>>]
    /\ apiDoc' = NoDoc
    /\ UNCHANGED <<pendingParams, schemaCache, lastInfer, inferCalls>>
    /\ UNCHANGED <<openApiJson, appStack, instances, reqs, process>>

StorePathInputs == {Slash, <<"/", "i">>}

StoreCtrlPathInputs == {<<"/", "u">>, <<"w">>}

NextStore ==
    \/ \E cls \in Classes, path \in StoreCtrlPathInputs : Controller(cls, path, <<>>)
    \/ TotalRoutes < MaxStored
          /\ \E cls \in Classes, method \in {"get", "post"}, h \in {"h0", "h1"},
                path \in StorePathInputs :
                 MethodDecorator(method, cls, h, path, <<>>, <<>>)
    \/ GenerateOpenAPISpec(NoOptions)
    \/ resetMetadataStorage

SpecStore == Init /\ [][NextStore]_vars

----------------------------------------------------------------------------
(* Properties                                                              *)

\* the (method, path) operations of a document
DocOps(doc) == {x \in Methods \X DOMAIN doc.paths : x[1] \in DOMAIN doc.paths[x[2]]}

\* Express serves a router's route at the mount path (less a trailing '/')
\* followed by the route path, a route path of '/' adding nothing
ServedPath(router, route) ==
    LET mnt == IF Len(router.mount) > 0 /\ router.mount[Len(router.mount)] = "/"
               THEN SubSeq(router.mount, 1, Len(router.mount) - 1) ELSE router.mount
        p == mnt \o (IF route.routePath = Slash THEN <<>> ELSE route.routePath)
    IN IF p = <<>> THEN Slash ELSE p

BoundOps(stack) ==
    UNION {{<<stack[i].routes[j].method, ServedPath(stack[i], stack[i].routes[j])>> :
               j \in DOMAIN stack[i].routes} : i \in DOMAIN stack}

\* C1: after registerControllers returns, the (method, full path) operations of
\* the document it wrote are exactly the (method, full path) routes it bound
C1_DocumentMatchesBoundRoutes ==
    openApiJson.generated => DocOps(openApiJson) = BoundOps(appStack)

\* the run of '/' collapsed, computed from the positions that are kept
KeptPositions(s) == {i \in 1..Len(s) : ~(i > 1 /\ s[i] = "/" /\ s[i - 1] = "/")}
Squeezed(s) ==
    [k \in 1..Cardinality(KeptPositions(s)) |->
        s[CHOOSE i \in KeptPositions(s) : Cardinality({j \in KeptPositions(s) : j <= i}) = k]]

ComposedPath(base, controllerPath, routePath) ==
    Squeezed(base \o controllerPath \o (IF routePath \in {Slash, <<>>} THEN <<>> ELSE routePath))

ExpectedOps(base, ctrls, rts) ==
    UNION {{<<rts[ctrls[j].cls][i].method,
              ComposedPath(base, ctrls[j].path, rts[ctrls[j].cls][i].path)>> :
               i \in DOMAIN rts[ctrls[j].cls]} : j \in DOMAIN ctrls}

BaseOf(options) == IF options.base = <<>> THEN <<>> ELSE options.base[1]

\* C2: generateOpenAPISpec documents every route under base + controller path +
\* route path with the runs of '/' collapsed, a route path of '/' adding nothing
C2_DocumentKeyIsComposedPath ==
    [][\A options \in OptionInputs :
          (apiDoc'.generated /\ GenerateOpenAPISpec(options)) =>
              DocOps(apiDoc') = ExpectedOps(BaseOf(options), controllers, routes)]_vars

\* a document generated under base '/v' for controller 'u' with a route at '/'
C2_Witness ==
    /\ apiDoc.generated
    /\ <<"get", <<"/", "v", "/", "u">>>> \in DocOps(apiDoc)
    /\ \E i \in DOMAIN routes["A"] : routes["A"][i].path = Slash

ParamsOf(route) == IF route.parameters = <<>> THEN <<>> ELSE route.parameters[1]
BodiesOf(route) == SelectSeq(ParamsOf(route), LAMBDA q : q.in = "body")

\* the operation of the document that the i-th route of class cls wrote, when
\* no later route of the class wrote the same method of the same path
IsLastWriter(cls, i) ==
    \A k \in DOMAIN routes[cls] :
        k > i => ~(routes[cls][k].method = routes[cls][i].method
                   /\ routes[cls][k].path = routes[cls][i].path)

OperationOf(doc, cls, i) ==
    doc.paths[FullPath(<<>>, controllers[ControllerIndex(controllers, cls)], routes[cls][i])]
             [routes[cls][i].method]

Documented(cls, i) ==
    apiDoc.generated /\ HasController(controllers, cls) /\ i \in DOMAIN routes[cls]
    /\ IsLastWriter(cls, i)

\* C3: the operation of a route with declared body parameters has no 'body' entry
\* in its parameters array, which holds the other parameters as declared, and
\* carries the body parameter under requestBody
C3_BodyOnlyUnderRequestBody ==
    \A i \in 1..MaxCaptures + 1 :
        (Documented("A", i) /\ Len(BodiesOf(routes["A"][i])) > 0) =>
            LET op == OperationOf(apiDoc, "A", i)
                rt == routes["A"][i]
            IN /\ op.parameters # <<>> =>
                     /\ \A k \in DOMAIN op.parameters[1] : op.parameters[1][k].in # "body"
                     /\ \A k \in DOMAIN op.parameters[1] :
                            \E n \in DOMAIN ParamsOf(rt) : ParamsOf(rt)[n] = op.parameters[1][k]
               /\ op.parameters = <<>> => \A n \in DOMAIN ParamsOf(rt) : ParamsOf(rt)[n].in = "body"
               /\ op.requestBody # <<>>
               /\ op.requestBody[1].schema = (IF BodiesOf(rt)[1].schema = <<>> THEN Sch("object")
                                              ELSE BodiesOf(rt)[1].schema[1])

\* a generated operation with a query parameter beside the request body
C3_Witness ==
    \E i \in DOMAIN routes["A"] :
        /\ Documented("A", i)
        /\ Len(BodiesOf(routes["A"][i])) > 0
        /\ OperationOf(apiDoc, "A", i).parameters # <<>>
        /\ OperationOf(apiDoc, "A", i).requestBody # <<>>

\* the responses a registered route holds; an explicitly supplied one is among
\* them whether it came from @ApiResponse metadata or from the options
ResponsesOf(route) == IF route.responses = <<>> THEN <<>> ELSE route.responses[1]
DeclaresNoResponse(route) ==
    \A c \in DOMAIN ResponsesOf(route) : ResponsesOf(route)[c].description # "explicit"

\* C7 as stated: a route captured for a handler with a declared parameter and no
\* explicitly supplied response has a default success entry, '201' for POST and
\* '200' for every other method
C7_DefaultSuccessForDeclaredParameter ==
    \A i \in DOMAIN routes["A"] :
        LET rt == routes["A"][i]
        IN (Len(Sig(rt.handlerName).paramTypes) > 0 /\ DeclaresNoResponse(rt)) =>
               (IF rt.method = "post" THEN "201" ELSE "200") \in DOMAIN ResponsesOf(rt)

\* C7 as amended: a route captured for a handler with a declared return type and
\* no explicitly supplied response has a default success entry, keyed '201'
\* ('Created successfully') for POST and '200' ('Successful response') for every
\* other method
C7_DefaultSuccessForDeclaredReturnType ==
    \A i \in DOMAIN routes["A"] :
        LET rt == routes["A"][i]
            code == IF rt.method = "post" THEN "201" ELSE "200"
        IN (Sig(rt.handlerName).returnType # "undefined" /\ DeclaresNoResponse(rt)) =>
               /\ code \in DOMAIN ResponsesOf(rt)
               /\ ResponsesOf(rt)[code].description =
                      (IF rt.method = "post" THEN "Created successfully"
                       ELSE "Successful response")
               /\ ResponsesOf(rt)[code].content # <<>>

\* a POST route captured with the default '201' entry
C7_Witness ==
    \E i \in DOMAIN routes["A"] :
        /\ routes["A"][i].method = "post"
        /\ Sig(routes["A"][i].handlerName).returnType # "undefined"
        /\ routes["A"][i].responses # <<>>
        /\ "201" \in DOMAIN routes["A"][i].responses[1]
        /\ routes["A"][i].responses[1]["201"].description = "Created successfully"

\* C8: the operation of a route that declared no response has the default
\* responses {'200': 'Successful response'}, so that no operation of a generated
\* document has an empty responses mapping
C8_DefaultResponsesWhenNoneDeclared ==
    \A i \in 1..MaxCaptures + 1 :
        Documented("A", i) =>
            /\ DOMAIN OperationOf(apiDoc, "A", i).responses # {}
            /\ (routes["A"][i].responses = <<>> \/ DOMAIN routes["A"][i].responses[1] = {})
                   => OperationOf(apiDoc, "A", i).responses = DefaultResponses

Done(r) == reqs[r].pc = "done"
Failed(r) == reqs[r].run.outcome.kind = "throw"
ErrorText(err) == IF Message(err) = <<>> \/ Message(err) = <<"">> THEN "Internal Server Error"
                  ELSE Message(err)[1]

\* C4: when the handler throws or rejects, the dispatch function sends exactly
\* one response, with status 500 and the error's message, or the generic text
\* when the error has no message or an empty one
C4_FailureAnsweredWith500 ==
    \A r \in Requests :
        (Done(r) /\ Failed(r)) =>
            reqs[r].res.sent = <<[status |-> 500, body |-> ErrorText(reqs[r].run.outcome.value),
                                  by |-> "dispatch"]>>

\* C5: whatever the handler throws or rejects with, and also when it fails after
\* the response was written, the dispatch function completes without rejecting
\* and the process keeps serving the other requests
C5_NoFailureEscapesDispatch ==
    /\ process = "running"
    /\ \A r \in Requests : reqs[r].dispatch # "rejected"

Returned(r) == reqs[r].run.outcome.kind = "return" /\ reqs[r].run.outcome.value # "undefined"

\* C6 as stated: when the handler returns a defined value v, directly or through
\* a promise, the dispatch function sends exactly one response, 200 with body v
C6_ResultAnsweredWith200 ==
    \A r \in Requests :
        (Done(r) /\ Returned(r)) =>
            reqs[r].res.sent = <<[status |-> 200, body |-> reqs[r].run.outcome.value,
                                  by |-> "dispatch"]>>

\* C6 as amended: when the handler leaves the response object untouched and
\* returns a defined value v that is not a number, directly or through a promise,
\* the dispatch function sends exactly one response, 200 with body v
C6_UntouchedResultAnsweredWith200 ==
    \A r \in Requests :
        (Done(r) /\ Returned(r) /\ reqs[r].run.touch = "none"
         /\ reqs[r].run.outcome.value # "n404") =>
            /\ reqs[r].res.sent = <<[status |-> 200, body |-> reqs[r].run.outcome.value,
                                     by |-> "dispatch"]>>
            /\ reqs[r].dispatch = "returned"

\* a POST route whose handler resolved a promise to an object, answered with 200
C6_Witness ==
    \E r \in Requests :
        /\ Done(r) /\ reqs[r].run.async /\ reqs[r].run.touch = "none"
        /\ reqs[r].run.outcome = [kind |-> "return", value |-> "obj"]
        /\ appStack[reqs[r].router].routes[reqs[r].route].method = "post"
        /\ reqs[r].res.sent = <<[status |-> 200, body |-> "obj", by |-> "dispatch"]>>

\* the types and values that take part in a reference cycle
CyclicInputs == {"Node", "Ping", "Pong", "Meta", "Bag", "objCyc",
                 "vNode", "vPing", "vPong", "vSelfArr"}

\* C9: on every self-referential input the inference returns a schema, without
\* exhausting the call stack
C9_CyclicInferenceTerminates ==
    (lastInfer.fn # "none" /\ lastInfer.arg \in CyclicInputs) =>
        (lastInfer.ex = "none" /\ ~lastInfer.overflow)

\* C10: getTypeSchema and inferSchemaFromValue return a schema with a type for
\* every input and never raise
C10_InferenceNeverRaises ==
    lastInfer.fn # "none" =>
        (lastInfer.ex = "none" /\ lastInfer.s.type \in {"string", "number", "boolean", "array", "object"})

\* the schema getTypeSchema is to return for the built-in scalar types and for an
\* array type whose element type cannot be recovered
BuiltinSchema(type) ==
    CASE type = "String" -> Sch("string")
      [] type \in {"Number", "BigInt"} -> Sch("number")
      [] type = "Boolean" -> Sch("boolean")
      [] type = "Date" -> SchFmt("string", "date-time")
      [] type \in {"Buffer", "ArrayBuffer"} -> SchFmt("string", "binary")
      [] type = "Array" -> SchArray(Sch("object"))

\* C11: getTypeSchema maps String, Number, BigInt, Boolean, Date, Buffer,
\* ArrayBuffer and the bare Array type to their fixed schemas, whatever the
\* cache holds from earlier calls
C11_BuiltinTypesHaveFixedSchemas ==
    (lastInfer.fn = "getTypeSchema"
     /\ lastInfer.arg \in {"String", "Number", "BigInt", "Boolean", "Date", "Buffer",
                           "ArrayBuffer", "Array"}) =>
        (lastInfer.ex = "none" /\ lastInfer.s = BuiltinSchema(lastInfer.arg))

\* Date inferred as a date-time string while the cache holds a placeholder left
\* behind by a call that raised
C11_Witness ==
    /\ lastInfer.fn = "getTypeSchema" /\ lastInfer.arg = "Date"
    /\ lastInfer.s = SchFmt("string", "date-time")
    /\ "objCyc" \in DOMAIN schemaCache

\* Express routing is not strict: a route answers its path with or without a
\* trailing '/'
Serves(router, route, url) ==
    \/ url = ServedPath(router, route)
    \/ url = ServedPath(router, route) \o Slash

\* C12: every route of a class that has a ControllerDescriptor and was passed to
\* registerControllers is served at the path under which the written document
\* lists it, for every base, controller path and route path
C12_BoundPathIsDocumentKey ==
    \A k \in DOMAIN appStack :
        HasController(controllers, appStack[k].cls) =>
            \A j \in DOMAIN appStack[k].routes :
                \E key \in DOMAIN openApiJson.paths :
                    /\ appStack[k].routes[j].method \in DOMAIN openApiJson.paths[key]
                    /\ Serves(appStack[k], appStack[k].routes[j], key)

\* const basePath = controllerMetadata.path.startsWith('/') ? ... (openapi.ts)
BuilderBasePath(controllerMetadata) ==
    IF StartsWithSlash(controllerMetadata.path) THEN controllerMetadata.path
    ELSE Slash \o controllerMetadata.path

ExactlyOneLeadingSlash(p) == Len(p) > 0 /\ p[1] = "/" /\ (Len(p) > 1 => p[2] # "/")

\* C13: the path stored for a controller, and the base path the builder derives
\* from it, start with exactly one '/'
C13_ControllerPathHasOneLeadingSlash ==
    \A i \in DOMAIN controllers :
        /\ ExactlyOneLeadingSlash(controllers[i].path)
        /\ ExactlyOneLeadingSlash(BuilderBasePath(controllers[i]))

\* C14: the requestBody of an operation is built from the first body parameter
\* of the route only (description defaulting to 'Request body', required unless
\* that parameter's required is false, schema defaulting to {type:'object'});
\* a route with no body parameter has no requestBody
C14_RequestBodyFromFirstBodyParameter ==
    \A i \in 1..MaxCaptures + 1 :
        Documented("A", i) =>
            LET bodies == BodiesOf(routes["A"][i])
                op == OperationOf(apiDoc, "A", i)
            IN IF Len(bodies) = 0 THEN op.requestBody = <<>>
               ELSE op.requestBody =
                      <<[description |-> IF bodies[1].description = "" THEN "Request body"
                                         ELSE bodies[1].description,
                         required |-> bodies[1].required,
                         schema |-> IF bodies[1].schema = <<>> THEN Sch("object")
                                    ELSE bodies[1].schema[1]]>>

\* a generated operation whose route has two different body parameters, the
\* first one optional
C14_Witness ==
    \E i \in DOMAIN routes["A"] :
        /\ Documented("A", i)
        /\ Len(BodiesOf(routes["A"][i])) > 1
        /\ BodiesOf(routes["A"][i])[1] # BodiesOf(routes["A"][i])[2]
        /\ ~BodiesOf(routes["A"][i])[1].required
        /\ OperationOf(apiDoc, "A", i).requestBody[1].description = "Test body"

GivesParameters(in) == "parameters" \in DOMAIN in.options

\* C15: a captured route holds the synthesized body parameter (name 'body',
\* required, schema of the first parameter type) exactly when the method has no
\* declared @Body parameter, is POST, PUT or PATCH and has a parameter type;
\* otherwise it holds the declared @Body parameters and no synthesized one
C15_SynthesizedBodyOnlyWhenNoneDeclared ==
    [][\A method \in Methods, h \in CaptureHandlers, in \in CaptureInputs :
          (/\ UNCHANGED <<controllers, pendingParams>>
           /\ Len(routes'["A"]) = Len(routes["A"]) + 1
           /\ MethodDecorator(method, "A", h, Slash, in.pending, in.options)) =>
              LET rt == routes'["A"][Len(routes'["A"])]
                  declared == pendingParams["A", h]
                  paramTypes == Sig(h).paramTypes
              IN IF GivesParameters(in)
                 THEN \A k \in DOMAIN declared :
                          \E n \in DOMAIN ParamsOf(rt) : ParamsOf(rt)[n] = declared[k]
                 ELSE ParamsOf(rt) =
                          IF /\ Len(declared) = 0
                             /\ method \in {"post", "put", "patch"}
                             /\ Len(paramTypes) > 0
                          THEN <<BodyParam(TRUE, "Request body",
                                           getTypeSchema(paramTypes[1], M0(schemaCache), 1).s)>>
                          ELSE declared]_vars

\* the positions (controller, route) whose route the builder writes under
\* (method, path) in a document without base prefix
WritersOf(method, path) ==
    {x \in (DOMAIN controllers) \X (1..MaxStored + 1) :
        /\ x[2] \in DOMAIN routes[controllers[x[1]].cls]
        /\ routes[controllers[x[1]].cls][x[2]].method = method
        /\ FullPath(<<>>, controllers[x[1]], routes[controllers[x[1]].cls][x[2]]) = path}

Later(x, y) == x[1] > y[1] \/ (x[1] = y[1] /\ x[2] >= y[2])

\* the operation left under (method, path) when the routes are visited in the
\* order of the lists: the one of the last writer
LastWritten(method, path) ==
    LET x == CHOOSE w \in WritersOf(method, path) :
                 \A y \in WritersOf(method, path) : Later(w, y)
    IN RouteSpec(controllers[x[1]], routes[controllers[x[1]].cls][x[2]])

\* C16: a route registration appends one entry to the list of its class and
\* leaves every earlier entry and every other class's list as they were, and the
\* builder visits the routes of a class in the order of its list
C16_RoutesKeptInRegistrationOrder ==
    [][/\ ~resetMetadataStorage =>
             \A c \in Classes :
                 \/ routes'[c] = routes[c]
                 \/ /\ Len(routes'[c]) = Len(routes[c]) + 1
                    /\ SubSeq(routes'[c], 1, Len(routes[c])) = routes[c]
                    /\ \A o \in Classes \ {c} : routes'[o] = routes[o]
       /\ GenerateOpenAPISpec(NoOptions) =>
             \A x \in DocOps(apiDoc') : apiDoc'.paths[x[2]][x[1]] = LastWritten(x[1], x[2])]_vars

\* two routes of one class registered for the same operation, the document
\* holding the second
C16_Witness ==
    /\ apiDoc.generated
    /\ HasController(controllers, "A")
    /\ Len(routes["A"]) = 2
    /\ routes["A"][1].method = "post" /\ routes["A"][2].method = "post"
    /\ routes["A"][1].path = routes["A"][2].path
    /\ routes["A"][1].handlerName = "h1" /\ routes["A"][2].handlerName = "h0"
    /\ OperationOf(apiDoc, "A", 2).requestBody = <<>>

StoreIsEmpty == controllers = <<>> /\ \A c \in Classes : routes[c] = <<>>

\* C17: resetMetadataStorage leaves the controllers and the routes maps empty,
\* and a document generated from the empty store has no paths
C17_ResetEmptiesTheStore ==
    [][/\ resetMetadataStorage => StoreIsEmpty'
       /\ (StoreIsEmpty /\ GenerateOpenAPISpec(NoOptions)) => DOMAIN apiDoc'.paths = {}]_vars

\* a document without paths generated after a reset that followed the capture
\* of a POST route (its parameter type is still in the schema cache)
C17_Witness ==
    /\ StoreIsEmpty
    /\ "Plain" \in DOMAIN schemaCache
    /\ apiDoc.generated /\ DOMAIN apiDoc.paths = {}

ServersAsked(options) == IF options.servers = <<>> THEN DefaultServers ELSE options.servers[1]

\* C18: a document produced directly by generateOpenAPISpec or written by
\* registerControllers lists the servers the caller supplied, and the single
\* server '/' when the caller supplied none
C18_ServersDefaultToRoot ==
    [][\A options \in OptionInputs :
          /\ GenerateOpenAPISpec(options) => apiDoc'.servers = ServersAsked(options)
          /\ (\E arr \in ControllerArrays : RegisterControllers(arr, options)) =>
                 openApiJson'.servers = ServersAsked(options)]_vars

\* the description asked of Body; an empty description counts as none given
DescriptionAsked(options) ==
    IF options.description = <<>> \/ options.description = <<"">> THEN "Request body"
    ELSE options.description[1]

\* C19: Body appends to the pending list of its class and method a descriptor
\* named 'body', located in 'body', required unless required: false was given,
\* described as asked or as 'Request body', and leaves every other pending list
\* alone; the route captured for a method with pending descriptors holds exactly
\* those descriptors
C19_BodyDescriptorsReachTheirRoute ==
    [][/\ \A options \in BodyOptionInputs :
              (Body("A", "h3", options, 0) /\ pendingParams' # pendingParams) =>
                  LET old == pendingParams["A", "h3"]
                      new == pendingParams'["A", "h3"]
                  IN /\ Len(new) = Len(old) + 1
                     /\ SubSeq(new, 1, Len(old)) = old
                     /\ new[Len(new)].name = "body"
                     /\ new[Len(new)].in = "body"
                     /\ new[Len(new)].required = (options.required # <<FALSE>>)
                     /\ new[Len(new)].description = DescriptionAsked(options)
                     /\ \A k \in DOMAIN pendingParams :
                            k # <<"A", "h3">> => pendingParams'[k] = pendingParams[k]
       /\ \A h \in Handlers :
              (/\ UNCHANGED <<controllers, pendingParams>>
               /\ Len(routes'["A"]) = Len(routes["A"]) + 1
               /\ routes'["A"][Len(routes'["A"])].handlerName = h
               /\ pendingParams["A", h] # <<>>) =>
                  ParamsOf(routes'["A"][Len(routes'["A"])]) = pendingParams["A", h]]_vars

HasExplicitSuccess(route) ==
    \E c \in DOMAIN ResponsesOf(route) \cap {"200", "201"} :
        ResponsesOf(route)[c].description = "explicit"

\* the element type is taken from the first parameter type when the handler
\* returns that parameter
ElementRecovered(sg) ==
    TypeInfo(sg.returnType).generic # "" /\ sg.ret = "param0" /\ Len(sg.paramTypes) > 0

\* C20: a route whose declared return type is array-like and that was given no
\* success response holds the default success response ('201' 'Created
\* successfully' for POST, '200' 'Successful response' otherwise) with a schema
\* of type 'array', its items being {type: 'object'} when no element type was
\* recovered
C20_ArrayReturnGivesArraySchema ==
    \A i \in DOMAIN routes["A"] :
        LET rt == routes["A"][i]
            sg == Sig(rt.handlerName)
            code == IF rt.method = "post" THEN "201" ELSE "200"
        IN (isArrayType(sg.returnType) /\ ~HasExplicitSuccess(rt)) =>
               /\ code \in DOMAIN ResponsesOf(rt)
               /\ ResponsesOf(rt)[code].description =
                      (IF rt.method = "post" THEN "Created successfully"
                       ELSE "Successful response")
               /\ ResponsesOf(rt)[code].content # <<>>
               /\ ResponsesOf(rt)[code].content[1].type = "array"
               /\ ~ElementRecovered(sg) =>
                      ResponsesOf(rt)[code].content[1].items = <<Sch("object")>>

\* the responses the dispatch function wrote for a request
DispatchResponses(res) == SelectSeq(res.sent, LAMBDA s : s.by = "dispatch")

\* C21: every request dispatched to a bound route whose handler completes,
\* whatever the handler does (returns a value or undefined, resolves, throws or
\* rejects), is eventually answered with exactly one response written by the
\* dispatch function; a request whose handler is still pending when the process
\* ends is not counted
C21_EveryRequestAnsweredOnce ==
    \A r \in Requests :
        (reqs[r].pc # "idle") ~>
            \/ reqs[r].pc = "done" /\ Len(DispatchResponses(reqs[r].res)) = 1
            \/ reqs[r].pc = "awaiting" /\ process = "crashed"

\* the paths some route of a registered controller resolves to
WrittenPaths ==
    {FullPath(<<>>, controllers[j], routes[controllers[j].cls][i]) :
        <<j, i>> \in {x \in (DOMAIN controllers) \X (1..MaxStored + 1) :
                         x[2] \in DOMAIN routes[controllers[x[1]].cls]}}

\* C22: routes that resolve to one full path and method leave one operation in
\* the document, the one of the route visited last (controllers in the order of
\* their first registration, routes in declaration order), and a path holds one
\* method key for each method some route registered on it
C22_LastRouteWinsCollision ==
    apiDoc.generated =>
        /\ DOMAIN apiDoc.paths = WrittenPaths
        /\ \A path \in WrittenPaths :
               /\ DOMAIN apiDoc.paths[path] = {m \in Methods : WritersOf(m, path) # {}}
               /\ \A m \in DOMAIN apiDoc.paths[path] :
                      apiDoc.paths[path][m] = LastWritten(m, path)

\* two controllers at '/u', each with a POST route at '/': the document holds
\* the operation of the second controller and no trace of the first
C22_Witness ==
    /\ apiDoc.generated
    /\ Len(controllers) = 2 /\ controllers[1].cls = "A" /\ controllers[2].cls = "B"
    /\ Len(routes["A"]) = 1 /\ Len(routes["B"]) = 1
    /\ routes["A"][1].method = "post" /\ routes["A"][1].handlerName = "h1"
    /\ routes["B"][1].method = "post" /\ routes["B"][1].handlerName = "h0"
    /\ routes["A"][1].path = routes["B"][1].path
    /\ DOMAIN apiDoc.paths = {<<"/", "u">>}
    /\ DOMAIN apiDoc.paths[<<"/", "u">>] = {"post"}
    /\ apiDoc.paths[<<"/", "u">>]["post"].requestBody = <<>>

----------------------------------------------------------------------------
(* Repeated registration: controller A at '/u' and the undecorated class B *)
(* bound by up to MaxInstances instantiations over several                 *)
(* registerControllers calls, then served with overlapping requests.       *)

MaxInstances == 3    \* controller instances created in one behaviour

\* Express hands a request to the first layer that matches its method and url;
\* the bound function never calls next()
Shadowed(i, j) ==
    \E x \in (DOMAIN appStack) \X (1..MaxStored + 1) :
        /\ x[2] \in DOMAIN appStack[x[1]].routes
        /\ x[1] < i \/ (x[1] = i /\ x[2] < j)
        /\ appStack[x[1]].routes[x[2]].method = appStack[i].routes[j].method
        /\ Serves(appStack[x[1]], appStack[x[1]].routes[x[2]],
                  ServedPath(appStack[i], appStack[i].routes[j]))

\* handlers that leave the response alone and return a value, at once or
\* through a promise
RegisterRuns == {run \in HandlerRuns : run.touch = "none" /\ run.outcome.kind = "return"
                                       /\ run.outcome.value = "obj"}

NextRegister ==
    \/ appStack = <<>> /\ Controller("A", <<"/", "u">>, <<>>)
    \/ appStack = <<>> /\ TotalRoutes < MaxStored
          /\ \E cls \in Classes, path \in StorePathInputs :
                 MethodDecorator("get", cls, "h0", path, <<>>, <<>>)
    \/ \E arr \in {<<"A">>, <<"A", "B">>} :
           /\ instances + Len(arr) <= MaxInstances
           /\ RegisterControllers(arr, NoOptions)
    \/ \E r \in Requests, i \in 1..MaxInstances, j \in 1..MaxStored, run \in RegisterRuns :
           /\ \A q \in Requests : q < r => reqs[q].pc # "idle"
           /\ i \in DOMAIN appStack /\ j \in DOMAIN appStack[i].routes
           /\ ~Shadowed(i, j)
           /\ Dispatch(r, i, j, run)
    \/ \E r \in Requests : Settle(r)

SpecRegister == Init /\ [][NextRegister]_vars

EntriesOf(ctrls, cls) == {i \in DOMAIN ctrls : ctrls[i].cls = cls}

\* C24: registering a controller leaves one descriptor for its class, the one
\* just given, whatever was registered for it before; registering it once more
\* with the same descriptor changes nothing; the routes and the descriptor of
\* every other class stay as they were
C24_ControllerRegistrationOverwrites ==
    [][\A cls \in Classes, path \in StoreCtrlPathInputs :
          Controller(cls, path, <<>>) =>
              LET given == [path |-> IF StartsWithSlash(path) THEN path ELSE Slash \o path,
                            tags |-> <<>>]
              IN /\ Cardinality(EntriesOf(controllers', cls)) = 1
                 /\ \A i \in EntriesOf(controllers', cls) :
                        controllers'[i] = [cls |-> cls, path |-> given.path, tags |-> given.tags]
                 /\ addControllerMetadata(controllers', cls, given) = controllers'
                 /\ routes' = routes
                 /\ \A o \in Classes \ {cls} :
                        /\ Cardinality(EntriesOf(controllers', o)) = Cardinality(EntriesOf(controllers, o))
                        /\ \A i \in EntriesOf(controllers, o) :
                               \E k \in EntriesOf(controllers', o) : controllers'[k] = controllers[i]]_vars

\* class A registered at '/w' after it was registered at '/u', class B and a
\* route of A being in the store
C24_Witness ==
    /\ Len(controllers) = 2
    /\ controllers[1] = [cls |-> "A", path |-> <<"/", "w">>, tags |-> <<>>]
    /\ controllers[2].cls = "B"
    /\ Len(routes["A"]) = 1

\* classes without property-type metadata, the ones the engine instantiates
InstantiatedTypes == {"Promise", "Plain", "Empty", "Thrower", "Node", "Ping", "Pong", "Bag"}

\* what the scan of the constructor's source text alone gives: one opaque
\* property for every `this.x =`, or the named opaque object when there is none
ScanSchema(type) ==
    LET i == TypeInfo(type)
    IN IF i.scanProps = <<>> THEN SchNamed(i.name)
       ELSE SchProps([n \in {i.scanProps[k] : k \in DOMAIN i.scanProps} |-> Sch("object")])

\* C25: getTypeSchema of a class whose constructor raises without arguments
\* returns normally, the properties being those of the scan of its source text,
\* each {type: 'object'}; for a class that is instantiated the scan is not used
\* (seen on the first call, when nothing comes from the cache); for a class with
\* property-type metadata the properties are the metadata's
C25_SourceScanOnlyWhenInstantiationRaises ==
    lastInfer.fn = "getTypeSchema" =>
        /\ (lastInfer.arg \in InstantiatedTypes /\ TypeInfo(lastInfer.arg).ctorThrows) =>
               lastInfer.ex = "none" /\ lastInfer.s = ScanSchema(lastInfer.arg)
        /\ (/\ lastInfer.arg \in InstantiatedTypes
            /\ inferCalls = 1
            /\ ~TypeInfo(lastInfer.arg).ctorThrows
            /\ TypeInfo(lastInfer.arg).fields # <<>>) =>
               lastInfer.ex = "none" /\ lastInfer.s # ScanSchema(lastInfer.arg)
        /\ lastInfer.arg = "Meta" =>
               /\ lastInfer.ex = "none"
               /\ lastInfer.s.props # <<>>
               /\ DOMAIN lastInfer.s.props[1] = {"title", "next"}

\* what getTypeSchema gives for a descriptor when it starts from an empty cache
FromEmptyCache(type) == getTypeSchema(type, M0(<<>>), 1).s

\* C26: the schema getTypeSchema returns for a descriptor is the one it returns
\* from an empty cache, whatever was inferred before the call
C26_SchemaIndependentOfCache ==
    (lastInfer.fn = "getTypeSchema" /\ lastInfer.ex = "none") =>
        lastInfer.s = FromEmptyCache(lastInfer.arg)

----------------------------------------------------------------------------
(* Documented and sent status: controller A at '/u' with routes whose      *)
(* handler declares a return type, bound once and served by handlers that  *)
(* leave the response alone and return a defined value.                    *)

DefinedRuns == {run \in HandlerRuns : run.touch = "none" /\ run.outcome.kind = "return"
                                      /\ run.outcome.value # "undefined"}

NextAnswer ==
    \/ Declaring /\ Controller("A", <<"/", "u">>, <<>>)
    \/ Declaring /\ TotalRoutes < MaxCaptures
          /\ \E method \in Methods : MethodDecorator(method, "A", "h2", Slash, <<>>, <<>>)
    \/ Declaring /\ HasController(controllers, "A") /\ RegisterControllers(<<"A">>, NoOptions)
    \/ \E r \in Requests, j \in 1..MaxCaptures, run \in DefinedRuns :
           /\ \A q \in Requests : q < r => reqs[q].pc # "idle"
           /\ Dispatch(r, 1, j, run)
    \/ \E r \in Requests : Settle(r)

SpecAnswer == Init /\ [][NextAnswer]_vars

\* the key under which the document lists a status code
StatusKey(code) ==
    CASE code = 200 -> "200"
      [] code = 201 -> "201"
      [] code = 404 -> "404"
      [] code = 500 -> "500"

\* the operation the written document holds for a bound route
WrittenOperation(router, route) ==
    openApiJson.paths[ServedPath(router, route)][route.method]

\* C27: the status sent for a request whose handler returned a defined value is
\* one of the status codes the written document lists for the route, the route
\* having a declared return type and no explicit response
C27_SentStatusIsDocumented ==
    \A r \in Requests :
        reqs[r].pc = "done" =>
            LET router == appStack[reqs[r].router]
                route == router.routes[reqs[r].route]
            IN \A k \in DOMAIN reqs[r].res.sent :
                   StatusKey(reqs[r].res.sent[k].status)
                       \in DOMAIN WrittenOperation(router, route).responses

\* C28: every key of paths, in a document generated directly or written by
\* registerControllers, begins with '/', whatever the base prefix, the
\* controller path and the route path
C28_DocumentKeysStartWithSlash ==
    /\ \A key \in DOMAIN apiDoc.paths : StartsWithSlash(key)
    /\ \A key \in DOMAIN openApiJson.paths : StartsWithSlash(key)

\* the constructors getTypeSchema has a fixed schema for
FixedSchemaTypes == {"String", "Number", "BigInt", "Boolean", "Date", "Buffer",
                     "ArrayBuffer", "Array"}

\* C29: for every class constructor other than String, Number, BigInt, Boolean,
\* Date, Buffer, ArrayBuffer and Array, getTypeSchema returns a schema of type
\* 'object', whatever the name and the source text of the class
C29_ClassSchemaIsObject ==
    (/\ lastInfer.fn = "getTypeSchema"
     /\ lastInfer.ex = "none"
     /\ TypeInfo(lastInfer.arg).kind = "class" \/ lastInfer.arg = "Object"
     /\ lastInfer.arg \notin FixedSchemaTypes) =>
        lastInfer.s.type = "object"

====
